---- MODULE Spec2Model ----
(***************************************************************************)
(* Model of shunting-yard-algorithm.py: the tokenizer (Tokenize), the      *)
(* operator table (Operator), the operator stack (OperatorStack), the      *)
(* output queue (RPNOutput) and the conversion shunting_yard.               *)
(*                                                                         *)
(* A string is a sequence of one-character strings.  One conversion call   *)
(* is a state machine: Begin runs lines 172-176, one action per branch of  *)
(* the main loop runs the branch and the trailing tokenized.next(), and    *)
(* Finish runs the final drain and the return.                             *)
(***************************************************************************)
EXTENDS Integers, Sequences, FiniteSets, TLC

(***************************************************************************)
(* Bounds of the model.                                                    *)
(***************************************************************************)
MaxLen == 4
MaxNodes == 3
MaxArgs == 2
MaxExtraCalls == 2
MaxPairLen == 3

(***************************************************************************)
(* Generic sequence helpers.                                               *)
(***************************************************************************)
Range(s) == {s[k] : k \in 1..Len(s)}

Reverse(s) == [k \in 1..Len(s) |-> s[Len(s) + 1 - k]]

Count(s, c) == Cardinality({k \in 1..Len(s) : s[k] = c})

RECURSIVE Flatten(_)
Flatten(ss) == IF Len(ss) = 0 THEN <<>> ELSE Head(ss) \o Flatten(Tail(ss))

RECURSIVE SeqsUpTo(_, _)
SeqsUpTo(S, n) ==
    IF n = 0 THEN {<<>>}
    ELSE LET shorter == SeqsUpTo(S, n - 1)
         IN  shorter \cup {Append(s, c) : s \in {t \in shorter : Len(t) = n - 1}, c \in S}

(***************************************************************************)
(* string.lowercase, string.digits, string.uppercase.                      *)
(***************************************************************************)
lowercase == {"a", "b", "c", "d", "e", "f", "g", "h", "i", "j", "k", "l", "m",
              "n", "o", "p", "q", "r", "s", "t", "u", "v", "w", "x", "y", "z"}

digits == {"0", "1", "2", "3", "4", "5", "6", "7", "8", "9"}

uppercase == {"A", "B", "C", "D", "E", "F", "G", "H", "I", "J", "K", "L", "M",
              "N", "O", "P", "Q", "R", "S", "T", "U", "V", "W", "X", "Y", "Z"}

(***************************************************************************)
(* class Operator.                                                         *)
(***************************************************************************)
LEFT == 0

RIGHT == 1

VALUES == <<"!", "^", "*", "/", "%", "+", "-", "=">>

\* The table with "^" entered as left-associative.
PROPS_caret_left == (VALUES[1] :> <<5, RIGHT>>) @@ (VALUES[2] :> <<4, LEFT>>) @@
             (VALUES[3] :> <<3, LEFT>>) @@ (VALUES[4] :> <<3, LEFT>>) @@
             (VALUES[5] :> <<3, LEFT>>) @@ (VALUES[6] :> <<2, LEFT>>) @@
             (VALUES[7] :> <<2, LEFT>>) @@ (VALUES[8] :> <<1, RIGHT>>)

\* Operator.PROPS
PROPS == (VALUES[1] :> <<5, RIGHT>>) @@ (VALUES[2] :> <<4, RIGHT>>) @@
         (VALUES[3] :> <<3, LEFT>>) @@ (VALUES[4] :> <<3, LEFT>>) @@
         (VALUES[5] :> <<3, LEFT>>) @@ (VALUES[6] :> <<2, LEFT>>) @@
         (VALUES[7] :> <<2, LEFT>>) @@ (VALUES[8] :> <<1, RIGHT>>)

\* Operator.__init__: the precedence and associativity an operator object holds.
precedence(val) == PROPS[val][1]

associativity(val) == PROPS[val][2]

is_left_associative(val) == associativity(val) = LEFT

is_right_associative(val) == associativity(val) = RIGHT

\* Operator.__lt__ and Operator.__le__
lt(self, other) == precedence(self) < precedence(other)

le(self, other) == precedence(self) <= precedence(other)

(***************************************************************************)
(* class Token.  The value of an Operator token is modelled by its symbol; *)
(* its precedence and associativity are read from PROPS.                   *)
(***************************************************************************)
SOL == -1

EOL == 0

IDENT == 1

OP == 2

FUNC == 3

ARG_SEP == 4

L_PAREN == 5

R_PAREN == 6

Token(type, val, pos) == [type |-> type, val |-> val, pos |-> pos]

\* Token.__repr__ (Operator.__repr__ for an operator): the display form.
str(token) == token.val

(***************************************************************************)
(* class RPNOutput.                                                        *)
(***************************************************************************)
\* RPNOutput.add as content.insert(0, val).
add_front(content, val) == <<val>> \o content

add(content, val) == Append(content, val)

\* RPNOutput.__repr__: ''.join(map(str, content))
repr(content) == [k \in 1..Len(content) |-> str(content[k])]

(***************************************************************************)
(* class OperatorStack.                                                    *)
(***************************************************************************)
push(stack, val) == Append(stack, val)

top(stack) == IF Len(stack) > 0 THEN stack[Len(stack)] ELSE Token(SOL, "", -1)

\* list.pop() on a non-empty list: the list that is left.
pop(stack) == SubSeq(stack, 1, Len(stack) - 1)

(***************************************************************************)
(* class Tokenize.  The generator's state is the index i of the next       *)
(* character it will look at.                                              *)
(***************************************************************************)
Recognized(char) ==
    char \in lowercase \cup digits \cup uppercase \cup Range(VALUES) \cup {"(", ")", ","}

TypeOf(char) ==
    IF char \in lowercase \cup digits THEN IDENT
    ELSE IF char \in uppercase THEN FUNC
    ELSE IF char \in Range(VALUES) THEN OP
    ELSE IF char = "(" THEN L_PAREN
    ELSE IF char = ")" THEN R_PAREN
    ELSE ARG_SEP

\* The scan with "break" for "continue": a character not described ends the input.
tokenize_stops(src, i) ==
    IF i < Len(src)
    THEN IF Recognized(src[i + 1]) THEN i ELSE Len(src)
    ELSE i

\* The generator's scan: the index of the first described character at or after i.
RECURSIVE tokenize(_, _)
tokenize(src, i) ==
    IF i < Len(src)
    THEN IF Recognized(src[i + 1]) THEN i ELSE tokenize(src, i + 1)
    ELSE i

\* Tokenize.__init__
Tokenize(src) == [i |-> 0, current_token |-> Token(EOL, "", -1)]

\* Tokenize.next with the generator's "i += 1" after the yield left out.
next_no_advance(src, self) ==
    LET k == tokenize(src, self.i)
    IN  IF k < Len(src)
        THEN [i |-> k, current_token |-> Token(TypeOf(src[k + 1]), src[k + 1], k)]
        ELSE [i |-> k, current_token |-> Token(EOL, "   ", -1)]

\* Tokenize.next creating the generator anew once it is exhausted.
next_restarts(src, self) ==
    LET k == tokenize(src, self.i)
    IN  IF k < Len(src)
        THEN [i |-> k + 1, current_token |-> Token(TypeOf(src[k + 1]), src[k + 1], k)]
        ELSE [i |-> 0, current_token |-> Token(EOL, "   ", -1)]

\* Tokenize.next with the position counted from one.
next_one_based(src, self) ==
    LET k == tokenize(src, self.i)
    IN  IF k < Len(src)
        THEN [i |-> k + 1, current_token |-> Token(TypeOf(src[k + 1]), src[k + 1], k + 1)]
        ELSE [i |-> k, current_token |-> Token(EOL, "   ", -1)]

\* Tokenize.next
next(src, self) ==
    LET k == tokenize(src, self.i)
    IN  IF k < Len(src)
        THEN [i |-> k + 1, current_token |-> Token(TypeOf(src[k + 1]), src[k + 1], k)]
        ELSE [i |-> k, current_token |-> Token(EOL, "   ", -1)]

(***************************************************************************)
(* shunting_yard: the branches of the main loop, each as a function of the *)
(* current token, the stack and the output.  The result holds the stack    *)
(* and output the branch leaves behind and the exception it raises, if any.*)
(***************************************************************************)
NoError == "None"

AssertionError == "AssertionError"

IndexError == "IndexError"

Outcome(stack, out, raised) == [stack |-> stack, out |-> out, raised |-> raised]

\* lines 179-180
OnIdentifier(token, stack, out) == Outcome(stack, add(out, token), NoError)

\* lines 182-183
OnFunction(token, stack, out) == Outcome(push(stack, token), out, NoError)

\* The separator loop as an "if": at most one token is popped.
SeparatorLoop_once(stack, out) ==
    IF top(stack).type \notin {L_PAREN, SOL}
    THEN Outcome(pop(stack), add(out, top(stack)), NoError)
    ELSE Outcome(stack, out, NoError)

\* lines 190-191
RECURSIVE SeparatorLoop(_, _)
SeparatorLoop(stack, out) ==
    IF top(stack).type \notin {L_PAREN, SOL}
    THEN SeparatorLoop(pop(stack), add(out, top(stack)))
    ELSE Outcome(stack, out, NoError)

\* The separator branch ending in a push of the separator, as the operator branch does.
OnSeparator_pushes(token, stack, out) ==
    LET r == SeparatorLoop(stack, out)
    IN  IF top(r.stack).type = L_PAREN
        THEN Outcome(push(r.stack, token), r.out, NoError)
        ELSE Outcome(r.stack, r.out, AssertionError)

\* The separator branch popping the left parenthesis, as the right parenthesis does.
OnSeparator_pops_paren(token, stack, out) ==
    LET r == SeparatorLoop(stack, out)
    IN  IF top(r.stack).type = L_PAREN
        THEN Outcome(pop(r.stack), r.out, NoError)
        ELSE Outcome(r.stack, r.out, AssertionError)

\* lines 185-192
OnSeparator(token, stack, out) ==
    LET r == SeparatorLoop(stack, out)
    IN  Outcome(r.stack, r.out,
                IF top(r.stack).type = L_PAREN THEN NoError ELSE AssertionError)

\* The condition of the operator loop without the test of associativity.
PopsOperator_any_associativity(o1, stack) ==
    /\ top(stack).type = OP
    /\ le(o1.val, top(stack).val)

\* lines 198-201: the condition of the operator loop
PopsOperator(o1, stack) ==
    /\ top(stack).type = OP
    /\ \/ is_left_associative(o1.val) /\ le(o1.val, top(stack).val)
       \/ lt(o1.val, top(stack).val)

\* The operator loop popping without output_queue.add: popped operators are lost.
RECURSIVE OperatorLoop_discards(_, _, _)
OperatorLoop_discards(o1, stack, out) ==
    IF PopsOperator(o1, stack)
    THEN OperatorLoop_discards(o1, pop(stack), out)
    ELSE Outcome(stack, out, NoError)

\* lines 198-203
RECURSIVE OperatorLoop(_, _, _)
OperatorLoop(o1, stack, out) ==
    IF PopsOperator(o1, stack)
    THEN OperatorLoop(o1, pop(stack), add(out, top(stack)))
    ELSE Outcome(stack, out, NoError)

\* lines 194-205
OnOperator(token, stack, out) ==
    LET r == OperatorLoop(token, stack, out)
    IN  Outcome(push(r.stack, token), r.out, NoError)

\* lines 207-208
OnLeftParen(token, stack, out) == Outcome(push(stack, token), out, NoError)

\* lines 213-215: list.pop() raises IndexError once the stack is empty
RECURSIVE RightParenLoop(_, _)
RightParenLoop(stack, out) ==
    IF top(stack).type # L_PAREN
    THEN IF Len(stack) = 0
         THEN Outcome(stack, out, IndexError)
         ELSE RightParenLoop(pop(stack), add(out, top(stack)))
    ELSE Outcome(stack, out, NoError)

\* Lines 217-221 without lines 220-221: the function stays on the stack.
AfterRightParenLoop_keeps_function(stack, out) ==
    IF top(stack).type # L_PAREN
    THEN Outcome(stack, out, AssertionError)
    ELSE Outcome(pop(stack), out, NoError)

\* Lines 217-221 without line 218: the left parenthesis stays on the stack.
AfterRightParenLoop_keeps_paren(stack, out) ==
    IF top(stack).type # L_PAREN
    THEN Outcome(stack, out, AssertionError)
    ELSE Outcome(stack, out, NoError)

\* lines 217-221, after the loop has ended normally
AfterRightParenLoop(stack, out) ==
    IF top(stack).type # L_PAREN
    THEN Outcome(stack, out, AssertionError)
    ELSE LET s == pop(stack)
         IN  IF top(s).type = FUNC
             THEN Outcome(pop(s), add(out, top(s)), NoError)
             ELSE Outcome(s, out, NoError)

\* lines 210-221
OnRightParen(token, stack, out) ==
    LET r == RightParenLoop(stack, out)
    IN  IF r.raised # NoError THEN r ELSE AfterRightParenLoop(r.stack, r.out)

\* lines 179-221: one pass through the body of the main loop
Body(token, stack, out) ==
    IF token.type = IDENT THEN OnIdentifier(token, stack, out)
    ELSE IF token.type = FUNC THEN OnFunction(token, stack, out)
    ELSE IF token.type = ARG_SEP THEN OnSeparator(token, stack, out)
    ELSE IF token.type = OP THEN OnOperator(token, stack, out)
    ELSE IF token.type = L_PAREN THEN OnLeftParen(token, stack, out)
    ELSE IF token.type = R_PAREN THEN OnRightParen(token, stack, out)
    ELSE Outcome(stack, out, NoError)

\* The final drain with lines 229 and 231 exchanged: the token is added to the
\* output before the assertion looks at it.
RECURSIVE Drain_adds_first(_, _)
Drain_adds_first(stack, out) ==
    IF top(stack).type \in {OP, L_PAREN, R_PAREN}
    THEN IF top(stack).type \in {L_PAREN, R_PAREN}
         THEN Outcome(pop(stack), add(out, top(stack)), AssertionError)
         ELSE Drain_adds_first(pop(stack), add(out, top(stack)))
    ELSE Outcome(stack, out, NoError)

\* The final drain as an "if": at most one operator is popped.
Drain_once(stack, out) ==
    IF top(stack).type \in {OP, L_PAREN, R_PAREN}
    THEN IF top(stack).type \in {L_PAREN, R_PAREN}
         THEN Outcome(stack, out, AssertionError)
         ELSE Outcome(pop(stack), add(out, top(stack)), NoError)
    ELSE Outcome(stack, out, NoError)

\* lines 227-231
RECURSIVE Drain(_, _)
Drain(stack, out) ==
    IF top(stack).type \in {OP, L_PAREN, R_PAREN}
    THEN IF top(stack).type \in {L_PAREN, R_PAREN}
         THEN Outcome(stack, out, AssertionError)
         ELSE Drain(pop(stack), add(out, top(stack)))
    ELSE Outcome(stack, out, NoError)

\* What a call of shunting_yard ends in: the exception raised and the string returned.
Result(raised, value) == [raised |-> raised, value |-> value]

\* lines 177-233
RECURSIVE MainLoop(_, _, _, _)
MainLoop(expression, tok, stack, out) ==
    IF tok.current_token.type # EOL
    THEN LET r == Body(tok.current_token, stack, out)
         IN  IF r.raised # NoError
             THEN Result(r.raised, <<>>)
             ELSE MainLoop(expression, next(expression, tok), r.stack, r.out)
    ELSE LET d == Drain(stack, out)
         IN  IF d.raised # NoError
             THEN Result(d.raised, <<>>)
             ELSE Result(NoError, repr(d.out))

\* lines 171-233: the conversion as a function of its input
shunting_yard(expression) ==
    MainLoop(expression, next(expression, Tokenize(expression)), <<>>, <<>>)

(***************************************************************************)
(* The inputs of the model.                                                *)
(***************************************************************************)
\* Every string of at most MaxLen characters over one character of each token
\* class (two operators) and one character that is not described.
Alphabet == {"a", "F", "+", "^", "(", ")", ",", " "}

Strings == SeqsUpTo(Alphabet, MaxLen)

\* Well-formed infix expressions over identifiers I and binary operators O:
\* operands (an identifier or a parenthesised expression) alternating with one
\* operator, counted by their nodes (operators and pairs of parentheses).
RECURSIVE Operands(_, _, _), Exprs(_, _, _)
Operands(I, O, n) ==
    IF n = 0 THEN {<<c>> : c \in I}
    ELSE {<<"(">> \o e \o <<")">> : e \in Exprs(I, O, n - 1)}

Exprs(I, O, n) ==
    Operands(I, O, n) \cup
    UNION {{p \o <<o>> \o e : p \in Operands(I, O, k), o \in O, e \in Exprs(I, O, n - 1 - k)} :
           k \in 0..(n - 1)}

\* Two identifiers with one operator of each precedence and associativity (and
\* two of one precedence), and one identifier with every binary operator.
ExprIds == {"a", "b"}

ExprOps == {"^", "*", "+", "-", "="}

BinaryOps == {"^", "*", "/", "%", "+", "-", "="}

WellFormed ==
    UNION {Exprs(ExprIds, ExprOps, n) \cup Exprs({"c"}, BinaryOps, n) : n \in 0..MaxNodes}

\* The arguments of the function calls of the model.
Arguments ==
    {<<c>> : c \in ExprIds} \cup {<<"a", o, "b">> : o \in ExprOps} \cup
    {<<"(", "a", ")">>,
     <<"!", "b">>,
     <<"a", "+", "b", "*", "a">>,
     <<"a", "^", "b", "^", "a">>,
     <<"(", "a", "+", "b", ")", "*", "a">>}

ArgumentLists == SeqsUpTo(Arguments, MaxArgs) \ {<<>>}

RECURSIVE Join(_)
Join(args) ==
    IF Len(args) = 1 THEN args[1] ELSE args[1] \o <<",">> \o Join(Tail(args))

Call(f, args) == <<f, "(">> \o Join(args) \o <<")">>

Calls == {Call("F", args) : args \in ArgumentLists}

\* A call as the right operand of an operator: the operator is below the function.
CallPrefixes == {<<"a", "=">>, <<"a", "+">>}

PrefixedCalls == {p \o c : p \in CallPrefixes, c \in Calls}

\* "a o1 b o2 c" for every pair of operators.
Triples ==
    {<<x, o1, y, o2, z>> : x \in {"a"}, y \in {"b"}, z \in {"c"},
                           o1 \in Range(VALUES), o2 \in Range(VALUES)}

\* The expressions of the driver (line 236) and of the documentation.
Worked == <<"3", "+", "4", "*", "2", "/", "(", "1", "-", "5", ")", "^", "2", "^", "3">>

WorkedSpaced == <<"3", " ", "+", " ", "4", " ", "*", " ", "2", " ", "/", " ", "(", " ", "1", " ", "-", " ", "5", " ", ")", " ", "^", " ", "2", " ", "^", " ", "3">>

Assignment == <<"a", "=", "D", "(", "f", "-", "b", "*", "c", "+", "d", ",", "!", "e", ",", "g", ")">>

AssignmentSpaced == <<"a", " ", "=", " ", "D", "(", "f", " ", "-", " ", "b", " ", "*", " ", "c", " ", "+", " ", "d", ",", " ", "!", "e", ",", " ", "g", ")">>

Examples ==
    {Worked, WorkedSpaced, Assignment, AssignmentSpaced,
     <<"2", "^", "3", "^", "4">>,
     <<"a", "-", "b", "-", "c">>,
     <<"(", "a", "+", "b", ")", "*", "c">>,
     <<"(", "a", "+", "b">>,
     <<"a", "+", "b", ")">>,
     <<"(", "a", "+", ",", ")", "+", ",">>,
     <<"#", "a", "_", "+", "\t", "B", "(", "1", ")", "?">>}

Inputs ==
    Strings \cup WellFormed \cup Calls \cup PrefixedCalls \cup Triples \cup Examples

(***************************************************************************)
(* One call of shunting_yard as a state machine.                           *)
(***************************************************************************)
\* delivered is the sequence of the tokens next() has returned so far; calls
\* holds the conversions of the two-call specification further down.
VARIABLES expression, tokenized, operator_stack, output_queue, pc, raised, returned,
          delivered, calls

vars == <<expression, tokenized, operator_stack, output_queue, pc, raised, returned,
          delivered, calls>>

current == tokenized.current_token

\* lines 172-174
Init ==
    /\ expression \in Inputs
    /\ tokenized = Tokenize(expression)
    /\ operator_stack = <<>>
    /\ output_queue = <<>>
    /\ pc = "begin"
    /\ raised = NoError
    /\ returned = <<>>
    /\ delivered = <<>>
    /\ calls = <<>>

\* line 176
Begin ==
    /\ pc = "begin"
    /\ tokenized' = next(expression, tokenized)
    /\ delivered' = Append(delivered, tokenized'.current_token)
    /\ pc' = "loop"
    /\ UNCHANGED <<expression, operator_stack, output_queue, raised, returned, calls>>

\* The end of one pass through the loop body: line 223 unless the body raised.
Advance(r) ==
    /\ operator_stack' = r.stack
    /\ output_queue' = r.out
    /\ raised' = r.raised
    /\ tokenized' = IF r.raised = NoError THEN next(expression, tokenized) ELSE tokenized
    /\ delivered' =
         IF r.raised = NoError THEN Append(delivered, tokenized'.current_token)
         ELSE delivered
    /\ pc' = IF r.raised = NoError THEN "loop" ELSE "failed"
    /\ UNCHANGED <<expression, returned, calls>>

Identifier ==
    /\ pc = "loop"
    /\ current.type = IDENT
    /\ Advance(OnIdentifier(current, operator_stack, output_queue))

Function ==
    /\ pc = "loop"
    /\ current.type = FUNC
    /\ Advance(OnFunction(current, operator_stack, output_queue))

Separator ==
    /\ pc = "loop"
    /\ current.type = ARG_SEP
    /\ Advance(OnSeparator(current, operator_stack, output_queue))

Operator ==
    /\ pc = "loop"
    /\ current.type = OP
    /\ Advance(OnOperator(current, operator_stack, output_queue))

LeftParen ==
    /\ pc = "loop"
    /\ current.type = L_PAREN
    /\ Advance(OnLeftParen(current, operator_stack, output_queue))

RightParen ==
    /\ pc = "loop"
    /\ current.type = R_PAREN
    /\ Advance(OnRightParen(current, operator_stack, output_queue))

\* lines 227-233
Finish ==
    /\ pc = "loop"
    /\ current.type = EOL
    /\ LET d == Drain(operator_stack, output_queue)
       IN  /\ operator_stack' = d.stack
           /\ output_queue' = d.out
           /\ raised' = d.raised
           /\ pc' = IF d.raised = NoError THEN "done" ELSE "failed"
           /\ returned' = IF d.raised = NoError THEN repr(d.out) ELSE <<>>
    /\ UNCHANGED <<expression, tokenized, delivered, calls>>

Next ==
    \/ Begin
    \/ Identifier
    \/ Function
    \/ Separator
    \/ Operator
    \/ LeftParen
    \/ RightParen
    \/ Finish

Spec == Init /\ [][Next]_vars

\* The conversion never pauses between two steps: the call runs to its end.
FairSpec == Spec /\ WF_vars(Next)

(***************************************************************************)
(* The tokenizer driven alone: next() called again and again, up to        *)
(* MaxExtraCalls times after it has first returned EndOfInput.             *)
(***************************************************************************)
TokenizerInputs == Strings \cup Examples

EndsDelivered == Cardinality({k \in 1..Len(delivered) : delivered[k].type = EOL})

TokenizerInit ==
    /\ expression \in TokenizerInputs
    /\ tokenized = Tokenize(expression)
    /\ delivered = <<>>
    /\ pc = "tokens"
    /\ operator_stack = <<>>
    /\ output_queue = <<>>
    /\ raised = NoError
    /\ returned = <<>>
    /\ calls = <<>>

\* One call of Tokenize.next (lines 154-160) and of current() after it.
CallNext ==
    /\ pc = "tokens"
    /\ EndsDelivered <= MaxExtraCalls
    /\ tokenized' = next(expression, tokenized)
    /\ delivered' = Append(delivered, tokenized'.current_token)
    /\ UNCHANGED <<expression, pc, operator_stack, output_queue, raised, returned, calls>>

TokenizerNext == CallNext

TokenizerSpec == TokenizerInit /\ [][TokenizerNext]_vars

(***************************************************************************)
(* Two calls of shunting_yard on the same input, their steps interleaved   *)
(* in any order.  Each call holds the objects lines 172-174 create for it. *)
(***************************************************************************)
Callers == {1, 2}

PairInputs == SeqsUpTo(Alphabet, MaxPairLen) \cup Triples \cup Examples

\* lines 171-174: the locals of a call that has just been entered
NewCall(e) ==
    [expression |-> e, tokenized |-> Tokenize(e), operator_stack |-> <<>>,
     output_queue |-> <<>>, pc |-> "begin", raised |-> NoError, returned |-> <<>>]

\* One step of a call: line 176, one pass through the loop body, or lines 227-233.
StepOf(c) ==
    IF c.pc = "begin"
    THEN [c EXCEPT !.tokenized = next(c.expression, c.tokenized), !.pc = "loop"]
    ELSE IF c.tokenized.current_token.type # EOL
    THEN LET r == Body(c.tokenized.current_token, c.operator_stack, c.output_queue)
         IN  [c EXCEPT !.operator_stack = r.stack,
                       !.output_queue = r.out,
                       !.raised = r.raised,
                       !.tokenized = IF r.raised = NoError
                                     THEN next(c.expression, c.tokenized) ELSE @,
                       !.pc = IF r.raised = NoError THEN "loop" ELSE "failed"]
    ELSE LET d == Drain(c.operator_stack, c.output_queue)
         IN  [c EXCEPT !.operator_stack = d.stack,
                       !.output_queue = d.out,
                       !.raised = d.raised,
                       !.pc = IF d.raised = NoError THEN "done" ELSE "failed",
                       !.returned = IF d.raised = NoError THEN repr(d.out) ELSE <<>>]

\* A step of call c with the stack list an attribute of the class OperatorStack
\* rather than of the instance: every call sees the stack the step leaves.
CallStep_shared_stack(cs, c) ==
    [d \in DOMAIN cs |->
        IF d = c THEN StepOf(cs[c])
        ELSE [cs[d] EXCEPT !.operator_stack = StepOf(cs[c]).operator_stack]]

\* A step of call c: only the objects of call c change (lines 60-61, 6-7, 118-120:
\* the stack, the output and the tokenizer state are attributes of the instances).
CallStep(cs, c) == [cs EXCEPT ![c] = StepOf(cs[c])]

PairInit ==
    /\ calls \in {[c \in Callers |-> NewCall(e)] : e \in PairInputs}
    /\ expression = <<>>
    /\ tokenized = Tokenize(<<>>)
    /\ operator_stack = <<>>
    /\ output_queue = <<>>
    /\ pc = "calls"
    /\ raised = NoError
    /\ returned = <<>>
    /\ delivered = <<>>

Run(c) ==
    /\ pc = "calls"
    /\ calls[c].pc \in {"begin", "loop"}
    /\ calls' = CallStep(calls, c)
    /\ UNCHANGED <<expression, tokenized, operator_stack, output_queue, pc, raised,
                   returned, delivered>>

PairNext == \E c \in Callers : Run(c)

PairSpec == PairInit /\ [][PairNext]_vars

(***************************************************************************)
(* Properties.                                                             *)
(***************************************************************************)
\* The operator table as the documentation states it.
StatedPrecedence(c) ==
    CASE c = "!" -> 5
      [] c = "^" -> 4
      [] c \in {"*", "/", "%"} -> 3
      [] c \in {"+", "-"} -> 2
      [] c = "=" -> 1

StatedLeft(c) == c \in {"*", "/", "%", "+", "-"}

\* C1: "a o1 b o2 c" is converted without failure, to "a b o1 c o2" exactly when
\* o2 is left-associative with precedence(o2) <= precedence(o1), or
\* precedence(o2) < precedence(o1), and to "a b c o2 o1" otherwise;
\* "2^3^4" gives "234^^" and "a-b-c" gives "ab-c-".
C1_OperatorPair ==
    /\ expression \in Triples =>
         /\ pc # "failed"
         /\ pc = "done" =>
              LET x == expression[1]
                  o1 == expression[2]
                  y == expression[3]
                  o2 == expression[4]
                  z == expression[5]
                  first == \/ StatedLeft(o2) /\ StatedPrecedence(o2) <= StatedPrecedence(o1)
                           \/ StatedPrecedence(o2) < StatedPrecedence(o1)
              IN  returned = IF first THEN <<x, y, o1, z, o2>> ELSE <<x, y, z, o2, o1>>
    /\ expression = <<"2", "^", "3", "^", "4">> =>
         /\ pc # "failed"
         /\ pc = "done" => returned = <<"2", "3", "4", "^", "^">>
    /\ expression = <<"a", "-", "b", "-", "c">> =>
         /\ pc # "failed"
         /\ pc = "done" => returned = <<"a", "b", "-", "c", "-">>

C1_Witness ==
    /\ pc = "done"
    /\ expression = <<"a", "^", "b", "^", "c">>
    /\ returned = <<"a", "b", "c", "^", "^">>

\* C2: "3+4*2/(1-5)^2^3" and its spaced form both return "342*15-23^^/+".
C2_WorkedExample ==
    expression \in {Worked, WorkedSpaced} =>
        /\ pc # "failed"
        /\ pc = "done" => returned = <<"3", "4", "2", "*", "1", "5", "-", "2", "3", "^", "^", "/", "+">>

C2_Witness ==
    /\ pc = "done"
    /\ expression = WorkedSpaced
    /\ Len(returned) = 13

\* The running count of a postfix string: +1 for an identifier, -1 for an operator.
PostfixCount(s, k) ==
    Cardinality({j \in 1..k : s[j] \in lowercase \cup digits})
        - Cardinality({j \in 1..k : s[j] \in Range(VALUES)})

\* C3: a well-formed infix expression of identifiers, binary operators and
\* balanced parentheses is converted, without failure, to a well-formed postfix
\* expression: the count is at least 1 after every token and 1 at the end.
C3_PostfixWellFormed ==
    expression \in WellFormed =>
        /\ pc # "failed"
        /\ pc = "done" =>
             /\ Len(returned) > 0
             /\ \A k \in 1..Len(returned) :
                  /\ returned[k] \in lowercase \cup digits \cup Range(VALUES)
                  /\ PostfixCount(returned, k) >= 1
             /\ PostfixCount(returned, Len(returned)) = 1

C3_Witness ==
    /\ pc = "done"
    /\ expression \in WellFormed
    /\ Len(expression) = 2 * MaxNodes + 1
    /\ Count(expression, "(") = 1
    /\ PostfixCount(returned, Len(returned)) = 1

\* The pieces of s between its occurrences of c.
RECURSIVE Split(_, _)
Split(s, c) ==
    IF \E k \in 1..Len(s) : s[k] = c
    THEN LET k == CHOOSE j \in 1..Len(s) : s[j] = c /\ \A h \in 1..(j - 1) : s[h] # c
         IN  <<SubSeq(s, 1, k - 1)>> \o Split(SubSeq(s, k + 1, Len(s)), c)
    ELSE <<s>>

\* The conversions of the arguments of a call one after the other.
ConvertedArguments(args) ==
    Flatten([k \in 1..Len(args) |-> shunting_yard(args[k]).value])

\* C4: F(e1,...,en) is converted to the conversions of e1..en followed by F, and
\* when the call is the right operand of an operator, F comes before that operator.
C4_FunctionAfterArguments ==
    /\ expression \in Calls =>
         /\ pc # "failed"
         /\ pc = "done" =>
              LET args == Split(SubSeq(expression, 3, Len(expression) - 1), ",")
              IN  /\ \A k \in 1..Len(args) : shunting_yard(args[k]).raised = NoError
                  /\ returned = ConvertedArguments(args) \o <<"F">>
    /\ expression \in PrefixedCalls =>
         /\ pc # "failed"
         /\ pc = "done" =>
              LET args == Split(SubSeq(expression, 5, Len(expression) - 1), ",")
              IN  /\ returned =
                       <<expression[1]>> \o ConvertedArguments(args)
                           \o <<"F", expression[2]>>
                  /\ Count(returned, "F") = 1

C4_Witness ==
    /\ pc = "done"
    /\ expression = Call("F", <<<<"a", "+", "b", "*", "a">>, <<"!", "b">>>>)
    /\ returned = <<"a", "b", "a", "*", "+", "b", "!", "F">>

\* C5 as stated: "a=D(f-b*c+d,!e,g)" returns "afbc*-d+e!g=D".
C5_AsStated ==
    (pc = "done" /\ expression \in {Assignment, AssignmentSpaced}) =>
        returned = <<"a", "f", "b", "c", "*", "-", "d", "+", "e", "!", "g", "=", "D">>

\* C5, amended: "a=D(f-b*c+d,!e,g)" and its spaced form return "afbc*-d+e!gD=":
\* the function comes before the assignment operator that was below it.
C5_AssignmentExample ==
    expression \in {Assignment, AssignmentSpaced} =>
        /\ pc # "failed"
        /\ pc = "done" => returned = <<"a", "f", "b", "c", "*", "-", "d", "+", "e", "!", "g", "D", "=">>

C5_Witness ==
    /\ pc = "done"
    /\ expression = Assignment
    /\ returned[Len(returned)] = "="

HasLeftParen(stack) == \E k \in 1..Len(stack) : stack[k].type = L_PAREN

\* C6 as stated: a conversion that reaches the end of the tokens with a LeftParen
\* on the stack, whatever lies above or below it, fails and returns no value.
C6_AsStated == pc = "done" => ~HasLeftParen(operator_stack)

\* C7 as stated: a RightParen processed with no LeftParen on the stack halts the
\* conversion with the same mismatch failure as the other mismatch cases.
C7_AsStated == (pc = "failed" /\ current.type = R_PAREN) => raised = AssertionError

\* The index of the topmost LeftParen of a stack that holds one.
TopmostLeftParen(stack) ==
    CHOOSE k \in 1..Len(stack) :
        /\ stack[k].type = L_PAREN
        /\ \A j \in (k + 1)..Len(stack) : stack[j].type # L_PAREN

\* C8: an ArgumentSeparator processed with no LeftParen on the stack moves the
\* whole stack to the output, top first, and the conversion fails without a
\* value; with a LeftParen on the stack exactly the tokens above the topmost
\* LeftParen are moved, top first, the LeftParen stays and the conversion goes on.
C8_SeparatorStep ==
    (pc = "loop" /\ current.type = ARG_SEP) =>
        IF HasLeftParen(operator_stack)
        THEN LET m == TopmostLeftParen(operator_stack)
             IN  /\ pc' = "loop"
                 /\ raised' = NoError
                 /\ operator_stack' = SubSeq(operator_stack, 1, m)
                 /\ output_queue' =
                      output_queue
                          \o Reverse(SubSeq(operator_stack, m + 1, Len(operator_stack)))
        ELSE /\ pc' = "failed"
             /\ raised' = AssertionError
             /\ returned' = <<>>
             /\ operator_stack' = <<>>
             /\ output_queue' = output_queue \o Reverse(operator_stack)

C8_Separator == [][C8_SeparatorStep]_vars

\* A failed separator that moved an operator, after a separator inside parentheses.
C8_Witness ==
    /\ pc = "failed"
    /\ raised = AssertionError
    /\ current.type = ARG_SEP
    /\ operator_stack = <<>>
    /\ \E k \in 1..current.pos :
         /\ expression[k] = ","
         /\ \E j \in 1..Len(output_queue) :
              output_queue[j].type = OP /\ output_queue[j].pos > k

OnlyIdentifiersAndOperators(s) ==
    \A k \in 1..Len(s) : s[k] \in lowercase \cup digits \cup Range(VALUES)

\* C9: an input of identifiers and operators only is converted without failure,
\* and the output holds each token of the input exactly once and nothing else.
C9_Permutation ==
    OnlyIdentifiersAndOperators(expression) =>
        /\ pc # "failed"
        /\ pc = "done" =>
             /\ Len(returned) = Len(expression)
             /\ Len(output_queue) = Len(expression)
             /\ \A p \in 1..Len(expression) :
                  \E k \in 1..Len(output_queue) :
                      /\ output_queue[k].pos = p - 1
                      /\ returned[k] = expression[p]

C9_Witness ==
    /\ pc = "done"
    /\ OnlyIdentifiersAndOperators(expression)
    /\ Len(expression) = MaxLen
    /\ returned # expression
    /\ \E k \in 1..Len(expression) : expression[k] \in Range(VALUES)

\* s with the characters from..to put in one more pair of parentheses.
Wrap(s, from, to) ==
    SubSeq(s, 1, from - 1) \o <<"(">> \o SubSeq(s, from, to) \o <<")">>
        \o SubSeq(s, to + 1, Len(s))

\* C10: "(a+b)*c" returns "ab+c*", and a well-formed expression in one more pair
\* of parentheses, or with one of its identifiers in one, converts to the same.
C10_RedundantParens ==
    /\ expression = <<"(", "a", "+", "b", ")", "*", "c">> =>
         /\ pc # "failed"
         /\ pc = "done" => returned = <<"a", "b", "+", "c", "*">>
    /\ (pc = "done" /\ expression \in WellFormed) =>
         /\ shunting_yard(Wrap(expression, 1, Len(expression)))
                = Result(NoError, returned)
         /\ \A k \in 1..Len(expression) :
              expression[k] \in lowercase \cup digits =>
                  shunting_yard(Wrap(expression, k, k)) = Result(NoError, returned)

C10_Witness ==
    /\ pc = "done"
    /\ expression = <<"(", "a", "+", "b", ")", "*", "c">>
    /\ returned = <<"a", "b", "+", "c", "*">>
    /\ shunting_yard(<<"(", "(", "a", "+", "b", ")", "*", "(", "c", ")", ")">>).value = returned

\* The characters the documentation describes: letters, digits, the eight
\* operators, the parentheses and the comma.
Described(c) ==
    c \in lowercase \cup digits \cup uppercase
          \cup {"!", "^", "*", "/", "%", "+", "-", "=", "(", ")", ","}

\* s without the characters that are not described.
RECURSIVE Strip(_)
Strip(s) ==
    IF Len(s) = 0 THEN <<>>
    ELSE IF Described(Head(s)) THEN <<Head(s)>> \o Strip(Tail(s))
    ELSE Strip(Tail(s))

Terminated == pc \in {"done", "failed"}

\* C11: characters that are not described are skipped: a conversion ends as the
\* conversion of its input without them ends, in the same string or the same
\* failure, and so do any two inputs that differ in such characters only (an
\* input of at most MaxLen characters and the same with one more such character).
C11_SkipsUndescribed ==
    Terminated =>
        /\ shunting_yard(Strip(expression)) = Result(raised, returned)
        /\ \A p \in 0..Len(expression) :
             Len(expression) <= MaxLen =>
             shunting_yard(SubSeq(expression, 1, p) \o <<"~">>
                               \o SubSeq(expression, p + 1, Len(expression)))
                 = Result(raised, returned)

\* A failure and a returned string, each of an input with undescribed characters.
C11_Witness ==
    /\ pc = "done"
    /\ expression = <<"#", "a", "_", "+", "\t", "B", "(", "1", ")", "?">>
    /\ returned = <<"a", "1", "B", "+">>
    /\ shunting_yard(<<" ", "(", " ", "a">>) = Result(AssertionError, <<>>)
    /\ shunting_yard(<<"(", "a">>) = Result(AssertionError, <<>>)

\* No described character is left at or after the tokenizer's position.
Exhausted ==
    \A k \in (tokenized.i + 1)..Len(expression) : ~Described(expression[k])

\* C12: once next() has returned an EndOfInput token, every later call returns
\* one, and current() reports the token the last call returned; with no
\* described character left, the next call returns EndOfInput.
C12_EndIsAbsorbing ==
    pc = "tokens" =>
        /\ \A j \in 1..Len(delivered) : \A k \in j..Len(delivered) :
             delivered[j].type = EOL => delivered[k].type = EOL
        /\ Len(delivered) > 0 => current = delivered[Len(delivered)]
        /\ Exhausted => next(expression, tokenized).current_token.type = EOL
        /\ (Len(delivered) > 0 /\ Exhausted /\ current.type = EOL) =>
               next(expression, tokenized) = tokenized

C12_Witness ==
    /\ pc = "tokens"
    /\ EndsDelivered = MaxExtraCalls + 1
    /\ Len(delivered) >= EndsDelivered + 2
    /\ ~Described(expression[Len(expression)])
    /\ current.type = EOL

\* The token kind the documentation gives a described character.
StatedType(c) ==
    CASE c \in lowercase \cup digits -> IDENT
      [] c \in uppercase -> FUNC
      [] c \in {"!", "^", "*", "/", "%", "+", "-", "="} -> OP
      [] c = "(" -> L_PAREN
      [] c = ")" -> R_PAREN
      [] c = "," -> ARG_SEP

\* One token for each described character of s from index k on, in order.
RECURSIVE StatedTokens(_, _)
StatedTokens(s, k) ==
    IF k > Len(s) THEN <<>>
    ELSE IF Described(s[k])
         THEN <<[type |-> StatedType(s[k]), val |-> s[k], pos |-> k - 1]>>
                  \o StatedTokens(s, k + 1)
         ELSE StatedTokens(s, k + 1)

\* The tokens delivered before the first EndOfInput.
RealDelivered == SelectSeq(delivered, LAMBDA t : t.type # EOL)

\* C13: the tokens delivered are, in order, one token for each described
\* character, of the stated kind and with the character's zero-based index as
\* its position; positions strictly increase and StartOfInput is never emitted.
C13_OneTokenPerCharacter ==
    pc = "tokens" =>
        LET want == StatedTokens(expression, 1)
        IN  /\ Len(RealDelivered) <= Len(want)
            /\ RealDelivered = SubSeq(want, 1, Len(RealDelivered))
            /\ EndsDelivered > 0 => RealDelivered = want
            /\ \A k \in 1..Len(delivered) : delivered[k].type # SOL
            /\ \A k \in 1..(Len(RealDelivered) - 1) :
                 RealDelivered[k].pos < RealDelivered[k + 1].pos

C13_Witness ==
    /\ pc = "tokens"
    /\ expression = AssignmentSpaced
    /\ EndsDelivered = 1
    /\ Len(RealDelivered) = 17
    /\ {RealDelivered[k].type : k \in 1..17} = {IDENT, OP, FUNC, ARG_SEP, L_PAREN, R_PAREN}
    /\ RealDelivered[17].pos = 26

CallEnded(c) == calls[c].pc \in {"done", "failed"}

\* Every call that has ended has the outcome its input alone determines.
C14_SameOutcome ==
    pc = "calls" =>
        \A c \in Callers :
            CallEnded(c) =>
                /\ Result(calls[c].raised, calls[c].returned)
                       = shunting_yard(calls[c].expression)
                /\ \A d \in Callers :
                     (CallEnded(d) /\ calls[d].expression = calls[c].expression) =>
                         /\ calls[d].raised = calls[c].raised
                         /\ calls[d].returned = calls[c].returned

\* A step changes the stack, output and tokenizer of one call only.
C14_OwnObjects ==
    pc = "calls" =>
        \E c \in Callers : \A d \in Callers \ {c} : calls'[d] = calls[d]

\* C14: two calls on the same input, their steps interleaved in any order, end
\* in the same outcome, the one the input determines, and no step of one call
\* changes the stack, the output or the tokenizer of the other.
C14_Independent == []C14_SameOutcome /\ [][C14_OwnObjects]_vars

\* One call has returned while the other is in the middle of its loop.
C14_Witness ==
    /\ pc = "calls"
    /\ calls[1].pc = "done"
    /\ calls[1].returned = <<"a", "b", "c", "^", "^">>
    /\ calls[2].pc = "loop"
    /\ Len(calls[2].operator_stack) = 2
    /\ Len(calls[2].output_queue) = 2

\* C15: the operator stack holds only Function, Operator and LeftParen tokens.
C15_StackKinds ==
    pc \in {"begin", "loop", "done", "failed"} =>
        \A k \in 1..Len(operator_stack) : operator_stack[k].type \in {FUNC, OP, L_PAREN}

C15_Witness ==
    /\ pc = "loop"
    /\ {operator_stack[k].type : k \in 1..Len(operator_stack)} = {FUNC, OP, L_PAREN}
    /\ Len(output_queue) > 0

\* The number of parentheses open after the first k characters of s.
ParenDepth(s, k) ==
    Cardinality({j \in 1..k : s[j] = "("}) - Cardinality({j \in 1..k : s[j] = ")"})

ParensBalanced(s) ==
    /\ \A k \in 1..Len(s) : ParenDepth(s, k) >= 0
    /\ ParenDepth(s, Len(s)) = 0

SeparatorsInside(s) == \A k \in 1..Len(s) : s[k] = "," => ParenDepth(s, k) >= 1

\* C16: an input with balanced parentheses whose separators all lie inside an
\* open parenthesis is converted without failure, however its identifiers,
\* operators and functions are arranged.
C16_FailsOnlyOnMismatch ==
    (ParensBalanced(expression) /\ SeparatorsInside(expression)) =>
        (pc # "failed" /\ raised = NoError)

\* A returned value for a separator inside parentheses after a function that
\* no parenthesis follows.
C16_Witness ==
    /\ pc = "done"
    /\ ParensBalanced(expression)
    /\ SeparatorsInside(expression)
    /\ \E k \in 1..Len(expression) : expression[k] = ","
    /\ \E k \in 1..(Len(expression) - 1) :
         expression[k] \in uppercase /\ expression[k + 1] # "("

\* One pass through the main loop consumes one token, and the inner loop of
\* the pass moves no more tokens to the output than the stack held.
C17_Progress ==
    (pc = "loop" /\ pc' = "loop") =>
        /\ Len(delivered') = Len(delivered) + 1
        /\ tokenized'.i > tokenized.i \/ tokenized'.current_token.type = EOL
        /\ Len(output_queue') <= Len(output_queue) + Len(operator_stack) + 1
        /\ Len(operator_stack') <= Len(operator_stack) + 1

\* C17: every conversion stops, by returning or by failing; each pass through
\* the main loop consumes a token and its inner loop ends with the stack.
C17_Terminates == <>Terminated /\ [][C17_Progress]_vars

\* A run that stopped by failing after its inner loop emptied the stack.
C17_Witness ==
    /\ pc = "failed"
    /\ raised = IndexError
    /\ operator_stack = <<>>
    /\ Len(output_queue) >= 2
    /\ Len(delivered) >= 3

\* Every function of s is followed by a left parenthesis as the next token.
FunctionsCalled(s) ==
    LET t == Strip(s)
    IN  \A k \in 1..Len(t) : t[k] \in uppercase => (k < Len(t) /\ t[k + 1] = "(")

\* C18: if every Function token is immediately followed by a LeftParen and the
\* conversion returns, the stack is empty at the return and the output holds
\* every Identifier, Operator and Function token of the input exactly once.
C18_NothingLost ==
    (pc = "done" /\ FunctionsCalled(expression)) =>
        /\ operator_stack = <<>>
        /\ \A p \in 1..Len(expression) :
             expression[p] \in lowercase \cup digits \cup uppercase \cup Range(VALUES) =>
                 Cardinality({k \in 1..Len(output_queue) :
                                 /\ output_queue[k].pos = p - 1
                                 /\ returned[k] = expression[p]}) = 1

C18_Witness ==
    /\ pc = "done"
    /\ FunctionsCalled(expression)
    /\ operator_stack = <<>>
    /\ \E k \in 1..Len(output_queue) : output_queue[k].type = FUNC
    /\ \E k \in 1..Len(output_queue) : output_queue[k].type = OP
    /\ \E p \in 1..Len(expression) : expression[p] = ","

IsIdentifier(t) == t.type = IDENT

\* The tokens the loop body has been run for.
Processed ==
    IF pc = "loop" THEN SubSeq(delivered, 1, Len(delivered) - 1) ELSE delivered

\* C19: the Identifier tokens of the output are the Identifier tokens read so
\* far, in the order of the input.
C19_IdentifierOrder ==
    pc \in {"begin", "loop", "done", "failed"} =>
        SelectSeq(output_queue, IsIdentifier) = SelectSeq(Processed, IsIdentifier)

\* Two identifiers in the output with an operator between them, a third pending.
C19_Witness ==
    /\ pc = "loop"
    /\ current.type = IDENT
    /\ Len(output_queue) = 3
    /\ output_queue[1].type = IDENT
    /\ output_queue[2].type = OP
    /\ output_queue[3].type = IDENT

\* C20: the output holds only Identifier, Operator and Function tokens, in
\* failing runs too, and a returned string has no parenthesis and no comma.
C20_OutputKinds ==
    pc \in {"begin", "loop", "done", "failed"} =>
        /\ \A k \in 1..Len(output_queue) : output_queue[k].type \in {IDENT, OP, FUNC}
        /\ \A k \in 1..Len(returned) : returned[k] \notin {"(", ")", ","}

\* A run that failed on a left parenthesis left on the stack, with output.
C20_Witness ==
    /\ pc = "failed"
    /\ raised = AssertionError
    /\ current.type = EOL
    /\ HasLeftParen(operator_stack)
    /\ \E k \in 1..Len(output_queue) : output_queue[k].type = OP
    /\ \E k \in 1..Len(output_queue) : output_queue[k].type = FUNC

====
